---- MODULE Spec2Model ----
(***************************************************************************)
(* A model of the QR code generator of src/lib/qr.ts: the pipeline of      *)
(* generateQR (version selection, byte-mode encoding, Reed-Solomon error   *)
(* correction, interleaving, matrix construction, zig-zag data placement,  *)
(* mask selection by penalty, format and version information) as a state   *)
(* machine whose steps are the stages of one call.                         *)
(*                                                                         *)
(* Arrays of the source are 0-based; sequences here are 1-based, so the    *)
(* source's a[i] is a[i + 1] here.  Grids are functions over 0..size-1,    *)
(* indexed exactly as in the source: mod[r][c].                            *)
(***************************************************************************)
EXTENDS Integers, Sequences, FiniteSets

\* ------------------------------------------------------------------------
\* Bit arithmetic on naturals (the source's >>, &, ^ and |)
\* ------------------------------------------------------------------------

Pow2(n) == 2 ^ n

Min(a, b) == IF a < b THEN a ELSE b
Max(a, b) == IF a > b THEN a ELSE b
Abs(a) == IF a < 0 THEN -a ELSE a

\* (val >> i) & 1
Bit(val, i) == (val \div Pow2(i)) % 2

\* a ^ b
RECURSIVE Xor(_, _)
Xor(a, b) ==
  IF a = 0 THEN b
  ELSE IF b = 0 THEN a
  ELSE ((a + b) % 2) + 2 * Xor(a \div 2, b \div 2)

\* a | b
RECURSIVE BitOr(_, _)
BitOr(a, b) ==
  IF a = 0 THEN b
  ELSE IF b = 0 THEN a
  ELSE Max(a % 2, b % 2) + 2 * BitOr(a \div 2, b \div 2)


\* ------------------------------------------------------------------------
\* Loops
\* ------------------------------------------------------------------------

\* A function value, computed once.
Force(f) == IF f = f THEN f ELSE f

\* y, with x computed first (and kept): the imperative code's order of
\* evaluation, where a local is computed once before the loop that uses it.
After(x, y) == IF {x} # {} THEN y ELSE y

\* The loop  for (i = lo; i < hi; i++) acc = Op(acc, i)  from acc on.  The
\* range is split in halves and the first half finished before the second
\* starts; the iterations run in the source's order.
RECURSIVE Fold(_, _, _, _)
Fold(Op(_, _), acc, lo, hi) ==
  IF lo >= hi \/ {acc} = {} THEN acc
  ELSE IF hi = lo + 1 THEN Op(acc, lo)
  ELSE LET mid == (lo + hi) \div 2
           left == Fold(Op, acc, lo, mid)
       IN After(left, Fold(Op, left, mid, hi))

\* The sum of f(i) for i in lo..hi-1.
Sum(f(_), lo, hi) == Fold(LAMBDA acc, i : acc + f(i), 0, lo, hi)

\* How many i in lo..hi-1 satisfy P.
Count(P(_), lo, hi) == Cardinality({i \in lo..(hi - 1) : P(i)})

\* ------------------------------------------------------------------------
\* GF(256) field arithmetic (primitive polynomial 0x11D)
\* ------------------------------------------------------------------------

\* One step of the table loop: x <<= 1; if (x & 0x100) x ^= 0x11d
GfStep(x) == IF 2 * x >= 256 THEN Xor(2 * x, 285) ELSE 2 * x

\* GF_EXP[0..254] as the first loop fills it: entry i + 1 here is GF_EXP[i].
GF_EXP_RUN == Fold(LAMBDA acc, i : Append(acc, GfStep(acc[i])), <<1>>, 1, 255)

\* GF_EXP[i] for i in 0..511: the second loop copies GF_EXP[i - 255], in
\* increasing i, so 510 and 511 copy the copies at 255 and 256.
GF_EXP == [i \in 0..511 |-> IF i < 255 THEN GF_EXP_RUN[i + 1]
                            ELSE IF i - 255 < 255 THEN GF_EXP_RUN[i - 255 + 1]
                            ELSE GF_EXP_RUN[i - 510 + 1]]

\* GF_LOG[x] = i for the last i of the loop with GF_EXP[i] = x; an x the loop
\* never reaches (only 0) keeps the array's initial 0.
GF_LOG == [x \in 0..255 |->
             LET is == {i \in 0..254 : GF_EXP_RUN[i + 1] = x}
             IN IF is = {} THEN 0 ELSE CHOOSE i \in is : \A j \in is : j <= i]

\* gfMul without its test for a zero operand.
gfMulNoZero(a, b) == GF_EXP[GF_LOG[a] + GF_LOG[b]]

gfMul(a, b) == IF a = 0 \/ b = 0 THEN 0 ELSE GF_EXP[GF_LOG[a] + GF_LOG[b]]

\* ------------------------------------------------------------------------
\* Reed-Solomon error-correction encoding
\* ------------------------------------------------------------------------

\* One round of buildGenPoly's loop (g times (x - alpha^i)); g[j] of the
\* source is g[j + 1] here.
GenPolyStep(g, i) ==
  Force([j \in 1..(Len(g) + 1) |->
           IF j = 1 THEN g[1]
           ELSE IF j = Len(g) + 1 THEN gfMul(GF_EXP[i], g[Len(g)])
           ELSE Xor(g[j], gfMul(GF_EXP[i], g[j - 1]))])

\* The generator polynomial of the given degree, highest coefficient first.
buildGenPoly(degree) == Fold(GenPolyStep, <<1>>, 0, degree)

\* One data byte through the remainder r (the body of rsEncode's loop).
RsStep(r, byte, gen, ecCount) ==
  LET f == Xor(byte, r[1])
  IN After(f, Force([i \in 1..ecCount |->
                       IF i < ecCount THEN Xor(r[i + 1], gfMul(f, gen[i + 1]))
                       ELSE gfMul(f, gen[ecCount + 1])]))

\* The ecCount error-correction codewords of data.
rsEncode(data, ecCount) ==
  LET gen == buildGenPoly(ecCount)
  IN After(gen, Fold(LAMBDA r, k : RsStep(r, data[k], gen, ecCount),
                     [i \in 1..ecCount |-> 0], 1, Len(data) + 1))

\* ------------------------------------------------------------------------
\* Data tables
\* ------------------------------------------------------------------------

ECLevels == {"L", "M", "Q", "H"}

\* EC_IDX with the indexes of M and Q exchanged.
EC_IDX_MQ(ec) == CASE ec = "L" -> 0 [] ec = "M" -> 2 [] ec = "Q" -> 1 [] ec = "H" -> 3

EC_IDX(ec) == CASE ec = "L" -> 0 [] ec = "M" -> 1 [] ec = "Q" -> 2 [] ec = "H" -> 3

\* EC_BLOCKS[version][ecIdx + 1] =
\*   <<ecPerBlock, g1Blocks, g1DataPerBlock, g2Blocks, g2DataPerBlock>>
EC_BLOCKS ==
  <<
     (* V1  *) <<<<7,1,19,0,0>>, <<10,1,16,0,0>>, <<13,1,13,0,0>>, <<17,1,9,0,0>>>>,
     (* V2  *) <<<<10,1,34,0,0>>, <<16,1,28,0,0>>, <<22,1,22,0,0>>, <<28,1,16,0,0>>>>,
     (* V3  *) <<<<15,1,55,0,0>>, <<26,1,44,0,0>>, <<18,2,17,0,0>>, <<22,2,13,0,0>>>>,
     (* V4  *) <<<<20,1,80,0,0>>, <<18,2,32,0,0>>, <<26,2,24,0,0>>, <<16,4,9,0,0>>>>,
     (* V5  *) <<<<26,1,108,0,0>>, <<24,2,43,0,0>>, <<18,2,15,2,16>>, <<22,2,11,2,12>>>>,
     (* V6  *) <<<<18,2,68,0,0>>, <<16,4,27,0,0>>, <<24,4,19,0,0>>, <<28,4,15,0,0>>>>,
     (* V7  *) <<<<20,2,78,0,0>>, <<18,4,31,0,0>>, <<18,2,14,4,15>>, <<26,4,13,1,14>>>>,
     (* V8  *) <<<<24,2,97,0,0>>, <<22,2,38,2,39>>, <<22,4,18,2,19>>, <<26,4,14,2,15>>>>,
     (* V9  *) <<<<30,2,116,0,0>>, <<22,3,36,2,37>>, <<20,4,16,4,17>>, <<24,4,12,4,13>>>>,
     (* V10 *) <<<<18,2,68,2,69>>, <<26,4,43,1,44>>, <<24,6,19,2,20>>, <<28,6,15,2,16>>>>,
     (* V11 *) <<<<20,4,81,0,0>>, <<30,1,50,4,51>>, <<28,4,22,4,23>>, <<24,3,12,8,13>>>>,
     (* V12 *) <<<<24,2,92,2,93>>, <<22,6,36,2,37>>, <<26,4,20,6,21>>, <<28,7,14,4,15>>>>,
     (* V13 *) <<<<26,4,107,0,0>>, <<22,8,37,1,38>>, <<24,8,20,4,21>>, <<22,12,11,4,12>>>>,
     (* V14 *) <<<<30,3,115,1,116>>, <<24,4,40,5,41>>, <<20,11,16,5,17>>, <<24,11,12,5,13>>>>,
     (* V15 *) <<<<22,5,87,1,88>>, <<24,5,41,5,42>>, <<30,5,24,7,25>>, <<24,11,12,7,13>>>>,
     (* V16 *) <<<<24,5,98,1,99>>, <<28,7,45,3,46>>, <<24,15,19,2,20>>, <<30,3,15,13,16>>>>,
     (* V17 *) <<<<28,1,107,5,108>>, <<28,10,46,1,47>>, <<28,1,22,15,23>>, <<28,2,14,17,15>>>>,
     (* V18 *) <<<<30,5,120,1,121>>, <<26,9,43,4,44>>, <<28,17,22,1,23>>, <<28,2,14,19,15>>>>,
     (* V19 *) <<<<28,3,113,4,114>>, <<26,3,44,11,45>>, <<26,17,21,4,22>>, <<26,9,13,16,14>>>>,
     (* V20 *) <<<<28,3,107,5,108>>, <<26,3,41,13,42>>, <<28,15,24,5,25>>, <<28,15,15,10,16>>>>,
     (* V21 *) <<<<28,4,116,4,117>>, <<26,17,42,0,0>>, <<30,17,22,6,23>>, <<28,19,16,6,17>>>>,
     (* V22 *) <<<<28,2,111,7,112>>, <<28,17,46,0,0>>, <<24,7,24,16,25>>, <<30,34,13,0,0>>>>,
     (* V23 *) <<<<30,4,121,5,122>>, <<28,4,47,14,48>>, <<30,11,24,14,25>>, <<30,16,15,14,16>>>>,
     (* V24 *) <<<<30,6,117,4,118>>, <<28,6,45,14,46>>, <<30,11,24,16,25>>, <<30,30,16,2,17>>>>,
     (* V25 *) <<<<26,8,106,4,107>>, <<28,8,47,13,48>>, <<30,7,24,22,25>>, <<30,22,15,13,16>>>>,
     (* V26 *) <<<<28,10,114,2,115>>, <<28,19,46,4,47>>, <<28,28,22,6,23>>, <<30,33,16,4,17>>>>,
     (* V27 *) <<<<30,8,122,4,123>>, <<28,22,45,3,46>>, <<30,8,23,26,24>>, <<30,12,15,28,16>>>>,
     (* V28 *) <<<<30,3,117,10,118>>, <<28,3,45,23,46>>, <<30,4,24,31,25>>, <<30,11,15,31,16>>>>,
     (* V29 *) <<<<30,7,116,7,117>>, <<28,21,45,7,46>>, <<30,1,23,37,24>>, <<30,19,15,26,16>>>>,
     (* V30 *) <<<<30,5,115,10,116>>, <<28,19,47,10,48>>, <<30,15,24,25,25>>, <<30,23,15,25,16>>>>,
     (* V31 *) <<<<30,13,115,3,116>>, <<28,2,46,29,47>>, <<30,42,24,1,25>>, <<30,23,15,28,16>>>>,
     (* V32 *) <<<<30,17,115,0,0>>, <<28,10,46,23,47>>, <<30,10,24,35,25>>, <<30,19,15,35,16>>>>,
     (* V33 *) <<<<30,17,115,1,116>>, <<28,14,46,21,47>>, <<30,29,24,19,25>>, <<30,11,15,46,16>>>>,
     (* V34 *) <<<<30,13,115,6,116>>, <<28,14,46,23,47>>, <<30,44,24,7,25>>, <<30,59,16,1,17>>>>,
     (* V35 *) <<<<30,12,121,7,122>>, <<28,12,47,26,48>>, <<30,39,24,14,25>>, <<30,22,15,41,16>>>>,
     (* V36 *) <<<<30,6,121,14,122>>, <<28,6,47,34,48>>, <<30,46,24,10,25>>, <<30,2,15,64,16>>>>,
     (* V37 *) <<<<30,17,122,4,123>>, <<28,29,46,14,47>>, <<30,49,24,10,25>>, <<30,24,15,46,16>>>>,
     (* V38 *) <<<<30,4,122,18,123>>, <<28,13,46,32,47>>, <<30,48,24,14,25>>, <<30,42,15,32,16>>>>,
     (* V39 *) <<<<30,20,117,4,118>>, <<28,40,47,7,48>>, <<30,43,24,22,25>>, <<30,10,15,67,16>>>>,
     (* V40 *) <<<<30,19,118,6,119>>, <<28,18,47,31,48>>, <<30,34,24,34,25>>, <<30,20,15,61,16>>>>
  >>

\* Alignment-pattern centre coordinates per version.
ALIGN_POS ==
  <<
     (* V1  *) <<>>,
     (* V2  *) <<6,18>>,
     (* V3  *) <<6,22>>,
     (* V4  *) <<6,26>>,
     (* V5  *) <<6,30>>,
     (* V6  *) <<6,34>>,
     (* V7  *) <<6,22,38>>,
     (* V8  *) <<6,24,42>>,
     (* V9  *) <<6,26,46>>,
     (* V10 *) <<6,28,50>>,
     (* V11 *) <<6,30,54>>,
     (* V12 *) <<6,32,58>>,
     (* V13 *) <<6,34,62>>,
     (* V14 *) <<6,26,46,66>>,
     (* V15 *) <<6,26,48,70>>,
     (* V16 *) <<6,26,50,74>>,
     (* V17 *) <<6,30,54,78>>,
     (* V18 *) <<6,30,56,82>>,
     (* V19 *) <<6,30,58,86>>,
     (* V20 *) <<6,34,62,90>>,
     (* V21 *) <<6,28,50,72,94>>,
     (* V22 *) <<6,26,50,74,98>>,
     (* V23 *) <<6,30,54,78,102>>,
     (* V24 *) <<6,28,54,80,106>>,
     (* V25 *) <<6,32,58,84,110>>,
     (* V26 *) <<6,30,58,86,114>>,
     (* V27 *) <<6,34,62,90,118>>,
     (* V28 *) <<6,26,50,74,98,122>>,
     (* V29 *) <<6,30,54,78,102,126>>,
     (* V30 *) <<6,26,52,78,104,130>>,
     (* V31 *) <<6,30,56,82,108,134>>,
     (* V32 *) <<6,34,60,86,112,138>>,
     (* V33 *) <<6,30,58,86,114,142>>,
     (* V34 *) <<6,34,62,90,118,146>>,
     (* V35 *) <<6,30,54,78,102,126,150>>,
     (* V36 *) <<6,24,50,76,102,128,154>>,
     (* V37 *) <<6,28,54,80,106,132,158>>,
     (* V38 *) <<6,32,58,84,110,136,162>>,
     (* V39 *) <<6,26,54,82,110,138,166>>,
     (* V40 *) <<6,30,58,86,114,142,170>>
  >>

\* Remainder bits to pad after the codewords, per version.
REM_BITS ==
  <<0, 7, 7, 7, 7, 7, 0, 0, 0, 0, 0, 0, 0, 3, 3, 3, 3, 3, 3, 3,
    4, 4, 4, 4, 4, 4, 4, 3, 3, 3, 3, 3, 3, 3, 0, 0, 0, 0, 0, 0>>

\* The table entry of (version, ec).
Blocks(version, ec) == EC_BLOCKS[version][EC_IDX(ec) + 1]

\* ------------------------------------------------------------------------
\* Version selection
\* ------------------------------------------------------------------------

\* Fits with the 16-bit character count starting at version 9.
FitsEarly16(byteLen, ec, v) ==
  LET e == Blocks(v, ec)
      cap == (e[2] * e[3] + e[4] * e[5]) * 8
      need == 4 + (IF v < 9 THEN 8 ELSE 16) + byteLen * 8
  IN need <= cap

\* need <= cap of getMinVersion's loop body, for version v.
Fits(byteLen, ec, v) ==
  LET e == Blocks(v, ec)
      cap == (e[2] * e[3] + e[4] * e[5]) * 8
      need == 4 + (IF v <= 9 THEN 8 ELSE 16) + byteLen * 8
  IN need <= cap

\* getMinVersion with a loop that stops before version 40.
getMinVersionTo39(byteLen, ec) ==
  LET fit == {v \in 1..39 : Fits(byteLen, ec, v)}
  IN IF fit = {} THEN -1 ELSE CHOOSE v \in fit : \A w \in fit : v <= w

\* The first v of 1..40 that fits, -1 when none does.
getMinVersion(byteLen, ec) ==
  LET fit == {v \in 1..40 : Fits(byteLen, ec, v)}
  IN IF fit = {} THEN -1 ELSE CHOOSE v \in fit : \A w \in fit : v <= w

\* ------------------------------------------------------------------------
\* The UTF-8 encoding of the text (TextEncoder.encode)
\* ------------------------------------------------------------------------

\* A text is a sequence of Unicode scalar values below 65536 (no
\* surrogates), each one UTF-16 code unit: text.length is Len(text).
Utf8Char(cp) ==
  IF cp < 128 THEN <<cp>>
  ELSE IF cp < 2048 THEN <<192 + (cp \div 64), 128 + (cp % 64)>>
  ELSE <<224 + (cp \div 4096), 128 + ((cp \div 64) % 64), 128 + (cp % 64)>>

\* The bytes of characters lo..hi of the text, in order.
RECURSIVE Utf8Range(_, _, _)
Utf8Range(text, lo, hi) ==
  IF lo > hi THEN <<>>
  ELSE IF lo = hi THEN Utf8Char(text[lo])
  ELSE LET mid == (lo + hi) \div 2
       IN Utf8Range(text, lo, mid) \o Utf8Range(text, mid + 1, hi)

Utf8Encode(text) == Utf8Range(text, 1, Len(text))

\* ------------------------------------------------------------------------
\* Data encoding (byte mode)
\* ------------------------------------------------------------------------

\* The pad codewords in the other order.
PADS_11_EC == <<17, 236>>

PADS == <<236, 17>>

\* The bit array of encodeData before it is packed; bits[i] of the source is
\* entry i + 1.
EncodeBits(bytes, version, ec) ==
  LET e == Blocks(version, ec)
      totalBits == (e[2] * e[3] + e[4] * e[5]) * 8
      ccBits == IF version <= 9 THEN 8 ELSE 16
      n == Len(bytes)
      lenA == 4 + ccBits + 8 * n
      \* terminator: for (i = 0; i < min(4, totalBits - bits.length); i++)
      term == Max(0, Min(4, totalBits - lenA))
      lenB == lenA + term
      \* while (bits.length % 8) bits.push(0)
      lenC == lenB + ((8 - (lenB % 8)) % 8)
      \* while (bits.length < totalBits) push(pads[pi & 1], 8)
      nPad == IF lenC < totalBits THEN (totalBits - lenC + 7) \div 8 ELSE 0
  IN Force([i \in 1..(lenC + 8 * nPad) |->
       LET k == i - 1
       IN IF k < 4 THEN Bit(4, 3 - k)
          ELSE IF k < 4 + ccBits THEN Bit(n, ccBits - 1 - (k - 4)) 
          ELSE IF k < lenA THEN Bit(bytes[((k - 4 - ccBits) \div 8) + 1],
                                    7 - ((k - 4 - ccBits) % 8))
          ELSE IF k < lenC THEN 0
          ELSE Bit(PADS[(((k - lenC) \div 8) % 2) + 1], 7 - ((k - lenC) % 8))])

\* bits -> codewords: one codeword for every i = 0, 8, 16, .. below
\* bits.length; a bit past the end reads as 0 in (byte << 1) | undefined.
PackBits(bits) ==
  LET n == Len(bits)
      at(k) == IF k < n THEN bits[k + 1] ELSE 0
  IN After(bits, After(n, Force([w \in 1..((n + 7) \div 8) |->
       LET i == 8 * (w - 1)
       IN 128 * at(i) + 64 * at(i + 1) + 32 * at(i + 2) + 16 * at(i + 3)
          + 8 * at(i + 4) + 4 * at(i + 5) + 2 * at(i + 6) + at(i + 7)])))

encodeData(bytes, version, ec) == PackBits(EncodeBits(bytes, version, ec))

\* ------------------------------------------------------------------------
\* Interleaving (data + EC)
\* ------------------------------------------------------------------------

\* data.slice(from, to): clamped to the array.
Slice(s, from, to) ==
  IF Min(to, Len(s)) <= from THEN <<>> ELSE SubSeq(s, from + 1, Min(to, Len(s)))

\* The data cut into g1n + g2n blocks of g1k codewords each.
DataBlocksAllG1k(data, version, ec) ==
  LET e == Blocks(version, ec)
  IN [b \in 1..(e[2] + e[4]) |-> Slice(data, (b - 1) * e[3], b * e[3])]

\* The data blocks: g1n of g1k codewords, then g2n of g2k.
DataBlocks(data, version, ec) ==
  LET e == Blocks(version, ec)
      g1n == e[2]  g1k == e[3]  g2n == e[4]  g2k == e[5]
  IN Force([b \in 1..(g1n + g2n) |->
       IF b <= g1n THEN Slice(data, (b - 1) * g1k, b * g1k)
       ELSE Slice(data, g1n * g1k + (b - g1n - 1) * g2k,
                        g1n * g1k + (b - g1n) * g2k)])

interleave(data, version, ec) ==
  LET e == Blocks(version, ec)
      ecPer == e[1]  g1k == e[3]  g2k == e[5]
      dBlocks == DataBlocks(data, version, ec)
      nb == Len(dBlocks)
      ecBlocks == Force([b \in 1..nb |-> rsEncode(dBlocks[b], ecPer)])
      maxD == Max(g1k, g2k)
      \* for (i < maxD) for (b of dBlocks) if (i < b.length) out.push(b[i])
      dataOut == Fold(LAMBDA out, p :
                        LET i == p \div nb
                            b == dBlocks[(p % nb) + 1]
                        IN IF i < Len(b) THEN Append(out, b[i + 1]) ELSE out,
                      <<>>, 0, maxD * nb)
      \* for (i < ecPer) for (b of ecBlocks) out.push(b[i])
      ecOut == [p \in 1..(ecPer * nb) |->
                  ecBlocks[((p - 1) % nb) + 1][((p - 1) \div nb) + 1]]
  IN After(dBlocks, After(ecBlocks, dataOut \o ecOut))

\* generateQR's bit stream: the codewords MSB first, then the remainder bits.
StreamBits(final, version) ==
  Force([i \in 1..(8 * Len(final) + REM_BITS[version]) |->
     IF i <= 8 * Len(final) THEN Bit(final[((i - 1) \div 8) + 1], 7 - ((i - 1) % 8))
     ELSE 0])

\* ------------------------------------------------------------------------
\* Matrix helpers
\* ------------------------------------------------------------------------

\* makeGrid with one cell too many in every row.
makeGridWide(size) == Force([r \in 0..(size - 1) |-> [c \in 0..size |-> FALSE]])

\* A Matrix is [mod |-> grid, res |-> grid]: the modules and the reserved
\* (function pattern) cells.
makeGrid(size) == Force([r \in 0..(size - 1) |-> [c \in 0..(size - 1) |-> FALSE]])

\* g[r][c] = v
SetCell(g, r, c, v) == [g EXCEPT ![r][c] = v]

\* The 7x7 finder pattern and its one-module separator at (r0, c0).
placeFinder(m, size, r0, c0) ==
  Fold(LAMBDA acc, p :
         LET dr == (p \div 9) - 1
             dc == (p % 9) - 1
             r == r0 + dr
             c == c0 + dc
             dark == \/ (dr >= 0 /\ dr <= 6 /\ (dc = 0 \/ dc = 6))
                     \/ (dc >= 0 /\ dc <= 6 /\ (dr = 0 \/ dr = 6))
                     \/ (dr >= 2 /\ dr <= 4 /\ dc >= 2 /\ dc <= 4)
         IN IF r < 0 \/ r >= size \/ c < 0 \/ c >= size THEN acc
            ELSE [mod |-> SetCell(acc.mod, r, c, dark),
                  res |-> SetCell(acc.res, r, c, TRUE)],
       m, 0, 81)

\* The 5x5 alignment pattern centred at (row, col).
placeAlign(m, row, col) ==
  Fold(LAMBDA acc, p :
         LET dr == (p \div 5) - 2
             dc == (p % 5) - 2
         IN [mod |-> SetCell(acc.mod, row + dr, col + dc,
                             Abs(dr) = 2 \/ Abs(dc) = 2 \/ (dr = 0 /\ dc = 0)),
             res |-> SetCell(acc.res, row + dr, col + dc, TRUE)],
       m, 0, 25)

\* reserveFormat without its last loop (the cells of column 8 at the bottom).
reserveFormatNoBottom(res, size) ==
  LET a == Fold(LAMBDA g, i : SetCell(SetCell(g, 8, i, TRUE), i, 8, TRUE), res, 0, 9)
  IN Fold(LAMBDA g, i : SetCell(g, 8, size - 1 - i, TRUE), a, 0, 8)

\* Reserve the cells that will hold the format information.
reserveFormat(res, size) ==
  LET a == Fold(LAMBDA g, i : SetCell(SetCell(g, 8, i, TRUE), i, 8, TRUE), res, 0, 9)
      b == Fold(LAMBDA g, i : SetCell(g, 8, size - 1 - i, TRUE), a, 0, 8)
  IN Fold(LAMBDA g, i : SetCell(g, size - 1 - i, 8, TRUE), b, 0, 7)

\* Reserve the cells that will hold the version information.
reserveVersion(res, size) ==
  Fold(LAMBDA g, i :
         LET a == i \div 3
             b == size - 11 + (i % 3)
         IN SetCell(SetCell(g, b, a, TRUE), a, b, TRUE),
       res, 0, 18)

\* The alignment patterns of buildMatrix: every pair of centres, but those
\* at the three finder corners.
PlaceAligns(m, version, size) ==
  LET pos == ALIGN_POS[version]
      n == Len(pos)
  IN Fold(LAMBDA acc, p :
            LET r == pos[(p \div n) + 1]
                c == pos[(p % n) + 1]
            IN IF \/ (r <= 8 /\ c <= 8)
                  \/ (r <= 8 /\ c >= size - 8)
                  \/ (r >= size - 8 /\ c <= 8)
               THEN acc
               ELSE placeAlign(acc, r, c),
          m, 0, n * n)

\* The timing patterns of buildMatrix, row 6 then column 6 for each i.
PlaceTiming(m, size) ==
  Fold(LAMBDA acc, i :
         LET dark == (i % 2 = 0)
             a == IF ~acc.res[6][i]
                  THEN [mod |-> SetCell(acc.mod, 6, i, dark),
                        res |-> SetCell(acc.res, 6, i, TRUE)]
                  ELSE acc
         IN IF ~a.res[i][6]
            THEN [mod |-> SetCell(a.mod, i, 6, dark),
                  res |-> SetCell(a.res, i, 6, TRUE)]
            ELSE a,
       m, 8, size - 8)

\* An empty matrix with all function patterns placed: [m, size].
buildMatrix(version) ==
  LET size == version * 4 + 17
      m0 == [mod |-> makeGrid(size), res |-> makeGrid(size)]
      m1 == placeFinder(m0, size, 0, 0)
      m2 == placeFinder(m1, size, 0, size - 7)
      m3 == placeFinder(m2, size, size - 7, 0)
      m4 == IF version >= 2 THEN PlaceAligns(m3, version, size) ELSE m3
      m5 == PlaceTiming(m4, size)
      \* dark module
      m6 == [mod |-> SetCell(m5.mod, size - 8, 8, TRUE),
             res |-> SetCell(m5.res, size - 8, 8, TRUE)]
      res7 == reserveFormat(m6.res, size)
      res8 == IF version >= 7 THEN reserveVersion(res7, size) ELSE res7
  IN After(m0, After(m1, After(m2, After(m3, After(m4, After(m5, After(m6,
     After(res7, [m |-> [mod |-> m6.mod, res |-> res8], size |-> size]))))))))

\* ------------------------------------------------------------------------
\* Data placement (zigzag)
\* ------------------------------------------------------------------------

\* placeData's outer loop without the step over the timing column.
PlaceColsNoSkip(size) == [i \in 1..((size - 1) \div 2) |-> size + 1 - (2 * i)]

\* The values of `right` in placeData's outer loop, in order: from size - 1
\* down by 2 while >= 1, with 6 replaced by 5.
PlaceCols(size) ==
  Fold(LAMBDA acc, i :
         LET right == IF acc = <<>> THEN size - 1 ELSE acc[Len(acc)] - 2
         IN IF right < 1 THEN acc
            ELSE Append(acc, IF right = 6 THEN 5 ELSE right),
       <<>>, 0, size)

\* The cell of the p-th inner iteration of placeData: column pair p \div 2size
\* (upward when even), v = (p % 2size) \div 2, j = p % 2.
PlaceCell(cols, size, p) ==
  LET k == p \div (2 * size)
      up == (k % 2 = 0)
      v == (p % (2 * size)) \div 2
  IN [row |-> IF up THEN size - 1 - v ELSE v, col |-> cols[k + 1] - (p % 2)]

\* placeData's loops: the modules and idx after them.
PlaceLoop(m, size, bits) ==
  LET cols == PlaceCols(size)
      res == m.res
      nbits == Len(bits)
  IN After(cols, After(res, After(nbits,
       Fold(LAMBDA st, p :
              LET cell == PlaceCell(cols, size, p)
              IN IF res[cell.row][cell.col] THEN st
                 ELSE [mod |-> SetCell(st.mod, cell.row, cell.col,
                                       st.idx < nbits /\ bits[st.idx + 1] = 1),
                       idx |-> st.idx + 1],
            [mod |-> m.mod, idx |-> 0], 0, Len(cols) * 2 * size))))

\* The cells placeData's loops assign, in the order of the assignments.
PlaceVisits(m, size) ==
  LET cols == PlaceCols(size)
      res == m.res
  IN After(cols, After(res,
       Fold(LAMBDA seen, p :
              LET cell == PlaceCell(cols, size, p)
              IN IF res[cell.row][cell.col] THEN seen
                 ELSE Append(seen, <<cell.row, cell.col>>),
            <<>>, 0, Len(cols) * 2 * size)))

placeData(m, size, bits) == [mod |-> PlaceLoop(m, size, bits).mod, res |-> m.res]

\* ------------------------------------------------------------------------
\* Masking
\* ------------------------------------------------------------------------

MASKS(maskIdx, r, c) ==
  CASE maskIdx = 0 -> (r + c) % 2 = 0
    [] maskIdx = 1 -> r % 2 = 0
    [] maskIdx = 2 -> c % 3 = 0
    [] maskIdx = 3 -> (r + c) % 3 = 0
    [] maskIdx = 4 -> ((r \div 2) + (c \div 3)) % 2 = 0
    [] maskIdx = 5 -> ((r * c) % 2) + ((r * c) % 3) = 0
    [] maskIdx = 6 -> (((r * c) % 2) + ((r * c) % 3)) % 2 = 0
    [] maskIdx = 7 -> (((r + c) % 2) + ((r * c) % 3)) % 2 = 0

\* applyMask without the test of the reserved cells.
applyMaskAll(mod, res, size, maskIdx) ==
  After(mod,
    Force([r \in DOMAIN mod |-> [c \in DOMAIN mod[r] |->
             IF r < size /\ c < size /\ MASKS(maskIdx, r, c)
             THEN ~mod[r][c] ELSE mod[r][c]]]))

\* applyMask setting the selected cells dark instead of inverting them.
applyMaskSet(mod, res, size, maskIdx) ==
  [r \in DOMAIN mod |-> [c \in DOMAIN mod[r] |->
     (r < size /\ c < size /\ ~res[r][c] /\ MASKS(maskIdx, r, c)) \/ mod[r][c]]]

\* The cells (r, c) with r, c < size are flipped in place where unreserved
\* and selected by the mask; the grid keeps its shape.
applyMask(mod, res, size, maskIdx) ==
  After(mod, After(res,
    Force([r \in DOMAIN mod |-> [c \in DOMAIN mod[r] |->
             IF r < size /\ c < size /\ ~res[r][c] /\ MASKS(maskIdx, r, c)
             THEN ~mod[r][c] ELSE mod[r][c]]])))

\* ------------------------------------------------------------------------
\* Penalty scoring
\* ------------------------------------------------------------------------

\* Rule 1 on one line (a row or a column) of length size: <<cnt, pen>> runs
\* through the cells 1..size-1, and the last run is closed after the loop.
RunPenalty(line(_), size) ==
  LET st == Fold(LAMBDA acc, c :
                   IF line(c) = line(c - 1) THEN <<acc[1] + 1, acc[2]>>
                   ELSE <<1, IF acc[1] >= 5 THEN acc[2] + acc[1] - 2 ELSE acc[2]>>,
                 <<1, 0>>, 1, size)
  IN IF st[1] >= 5 THEN st[2] + st[1] - 2 ELSE st[2]

P1 == <<TRUE, FALSE, TRUE, TRUE, TRUE, FALSE, TRUE, FALSE, FALSE, FALSE, FALSE>>
P2 == <<FALSE, FALSE, FALSE, FALSE, TRUE, FALSE, TRUE, TRUE, TRUE, FALSE, TRUE>>

\* Rule 3 at one start of one line: 40 for each of the two patterns found.
FinderLike(line(_), c) ==
  (IF \A k \in 0..10 : line(c + k) = P1[k + 1] THEN 40 ELSE 0)
  + (IF \A k \in 0..10 : line(c + k) = P2[k + 1] THEN 40 ELSE 0)

calcPenalty(mod, size) ==
  LET rule1 == Sum(LAMBDA r : RunPenalty(LAMBDA c : mod[r][c], size), 0, size)
               + Sum(LAMBDA c : RunPenalty(LAMBDA r : mod[r][c], size), 0, size)
      rule2 == Sum(LAMBDA r :
                     3 * Count(LAMBDA c : /\ mod[r][c] = mod[r][c + 1]
                                          /\ mod[r][c] = mod[r + 1][c]
                                          /\ mod[r][c] = mod[r + 1][c + 1],
                               0, size - 1),
                   0, size - 1)
      rule3 == Sum(LAMBDA r :
                     Sum(LAMBDA c : FinderLike(LAMBDA k : mod[r][k], c), 0, size - 10),
                   0, size)
               + Sum(LAMBDA c :
                       Sum(LAMBDA r : FinderLike(LAMBDA k : mod[k][c], r), 0, size - 10),
                     0, size)
      dark == Sum(LAMBDA r : Count(LAMBDA c : mod[r][c], 0, size), 0, size)
      \* floor(abs(dark * 100 / size^2 - 50) / 5) * 10: the quotient is an
      \* integer exactly when the floating-point one is, so integer division
      \* computes the same floor.
      rule4 == (Abs(dark * 100 - 50 * size * size) \div (5 * size * size)) * 10
  IN After(mod, rule1 + rule2 + rule3 + rule4)

\* ------------------------------------------------------------------------
\* Format and version information (BCH-encoded)
\* ------------------------------------------------------------------------

\* EC_IND as the identity: the table index written as the indicator.
EC_IND_SameAsIndex == <<0, 1, 2, 3>>

EC_IND == <<1, 0, 3, 2>>

\* The remainder loop shared by the two writers:
\*   for (i = top; i >= 0; i--) if (rem & (1 << (i + deg))) rem ^= gen << i
BchRem(val, gen, deg, top) ==
  Fold(LAMBDA rem, k :
         LET i == top - k
         IN IF Bit(rem, i + deg) = 1 THEN Xor(rem, gen * Pow2(i)) ELSE rem,
       val * Pow2(deg), 0, top + 1)

\* The 15-bit format word of (ecIdx, mask).
FormatInfo(ecIdx, mask) ==
  LET d == BitOr(EC_IND[ecIdx + 1] * 8, mask)
      rem == BchRem(d, 1335, 10, 4)
  IN Xor(BitOr(d * 1024, rem), 21522)

\* writeFormatInfo whose last line writes the loop's last `dark` (bit 14 of
\* the word) to the dark module instead of true.
writeFormatInfoLastDark(mod, size, ecIdx, mask) ==
  LET info == FormatInfo(ecIdx, mask)
      written ==
        Fold(LAMBDA g, i :
               LET dark == (Bit(info, i) = 1)
                   a == IF i < 6 THEN SetCell(g, i, 8, dark)
                        ELSE IF i < 8 THEN SetCell(g, i + 1, 8, dark)
                        ELSE SetCell(g, size - 15 + i, 8, dark)
               IN IF i < 8 THEN SetCell(a, 8, size - 1 - i, dark)
                  ELSE IF i < 9 THEN SetCell(a, 8, 15 - i - 1 + 1, dark)
                  ELSE SetCell(a, 8, 15 - i - 1, dark),
             mod, 0, 15)
  IN After(info, SetCell(written, size - 8, 8, Bit(info, 14) = 1))

writeFormatInfo(mod, size, ecIdx, mask) ==
  LET info == FormatInfo(ecIdx, mask)
      written ==
        Fold(LAMBDA g, i :
               LET dark == (Bit(info, i) = 1)
                   \* copy along column 8
                   a == IF i < 6 THEN SetCell(g, i, 8, dark)
                        ELSE IF i < 8 THEN SetCell(g, i + 1, 8, dark)
                        ELSE SetCell(g, size - 15 + i, 8, dark)
               \* copy along row 8
               IN IF i < 8 THEN SetCell(a, 8, size - 1 - i, dark)
                  ELSE IF i < 9 THEN SetCell(a, 8, 15 - i - 1 + 1, dark)
                  ELSE SetCell(a, 8, 15 - i - 1, dark),
             mod, 0, 15)
  \* dark module
  IN After(info, SetCell(written, size - 8, 8, TRUE))

\* The version word without its BCH remainder.
VersionInfoNoRem(version) == version * 4096

\* The 18-bit version word.
VersionInfo(version) ==
  BitOr(version * 4096, BchRem(version, 7973, 12, 5))

writeVersionInfo(mod, size, version) ==
  LET info == VersionInfo(version)
  IN After(info,
       Fold(LAMBDA g, i :
              LET dark == (Bit(info, i) = 1)
                  a == i \div 3
                  b == size - 11 + (i % 3)
              IN SetCell(SetCell(g, b, a, dark), a, b, dark),
            mod, 0, 18))

\* ------------------------------------------------------------------------
\* generateQR as a state machine
\* ------------------------------------------------------------------------

\* The texts and levels generateQR is called with.
Repeat(cp, n) == [i \in 1..n |-> cp]

MaxRepeat == 2

\* "The quick brown fox jumps over the lazy dog. 0123456789 ABCDEFGHIJKLMNOP"
FoxText ==
  <<84, 104, 101, 32, 113, 117, 105, 99, 107, 32, 98, 114, 111, 119, 110, 32,
    102, 111, 120, 32, 106, 117, 109, 112, 115, 32, 111, 118, 101, 114, 32,
    116, 104, 101, 32, 108, 97, 122, 121, 32, 100, 111, 103, 46, 32, 48, 49,
    50, 51, 52, 53, 54, 55, 56, 57, 32, 65, 66, 67, 68, 69, 70, 71, 72, 73,
    74, 75, 76, 77, 78, 79, 80>>

\* "hello world", "https://example.com", "1" and FoxText (the texts of
\* qr.test.ts), a text with two- and three-byte characters, and 60
\* characters, which need version 7 at level H.
SampleTexts ==
  { <<104, 101, 108, 108, 111, 32, 119, 111, 114, 108, 100>>,
    <<104, 116, 116, 112, 115, 58, 47, 47, 101, 120, 97, 109, 112, 108, 101,
      46, 99, 111, 109>>,
    <<49>>,
    <<233, 8364, 120>>,
    [i \in 1..60 |-> 48 + (i % 10)],
    FoxText }

Texts == SampleTexts \cup {Repeat(65, n) : n \in 0..MaxRepeat}

VARIABLES
  pc,        \* where the call is: idle, encode, build, mask, done
  text,      \* generateQR's arguments
  ecLevel,
  bytes,     \* its locals
  version,
  dataCW,
  final,
  bits,
  m,
  size,
  mask,
  bestMask,
  bestPen,
  test,      \* the trial grid of the last iteration of the mask loop
  pen,       \* and its penalty
  result,    \* the value returned
  heap,      \* the module grids (boolean[][] objects) a caller can reach, by identity
  ref,       \* the identity of m.mod
  past       \* the calls that have returned: arguments, value and identity returned

vars == <<pc, text, ecLevel, bytes, version, dataCW, final, bits, m, size,
          mask, bestMask, bestPen, test, pen, result, heap, ref, past>>

\* Infinity, the initial bestPen: below no penalty.
Infinity == -1

\* The loop's comparison turned round: pen > bestPen.
LessFlipped(p, best) == best = Infinity \/ p > best

\* pen < bestPen
Less(p, best) == best = Infinity \/ p < best

NoGrid == <<>>
NoMatrix == [mod |-> NoGrid, res |-> NoGrid]
Null == [null |-> TRUE, modules |-> NoGrid, size |-> 0, version |-> 0]
QRCode(modules, sz, v) == [null |-> FALSE, modules |-> modules, size |-> sz, version |-> v]

Init ==
  /\ pc = "idle"
  /\ text = <<>> /\ ecLevel = "M"
  /\ bytes = <<>> /\ version = 0
  /\ dataCW = <<>> /\ final = <<>> /\ bits = <<>>
  /\ m = NoMatrix /\ size = 0
  /\ mask = 0 /\ bestMask = 0 /\ bestPen = Infinity
  /\ test = NoGrid /\ pen = 0
  /\ result = Null
  /\ heap = <<>> /\ ref = 0 /\ past = <<>>

\* makeGrid handing out the grid object it made last, when there is one.
makeGridRefLast(h) == Max(1, Len(h))

\* The identity of the array makeGrid returns: Array.from makes a new object.
makeGridRef(h) == Len(h) + 1

\* The heap after grid g was written to the object id.
Store(h, id, g) == IF id > Len(h) THEN Append(h, g) ELSE [h EXCEPT ![id] = g]

\* generateQR without its test for the empty text.
IsEmptyNever(t) == FALSE

\* text.length === 0
IsEmpty(t) == Len(t) = 0

\* generateQR(t, e) up to version selection: the two early returns of null.
Call(t, e) ==
  /\ pc = "idle"
  /\ text' = t /\ ecLevel' = e
  /\ IF IsEmpty(t)
     THEN /\ pc' = "done" /\ result' = Null
          /\ UNCHANGED <<bytes, version>>
     ELSE /\ bytes' = Utf8Encode(t)
          /\ version' = getMinVersion(Len(bytes'), e)
          /\ IF version' = -1
             THEN pc' = "done" /\ result' = Null
             ELSE pc' = "encode" /\ UNCHANGED result
  /\ UNCHANGED <<dataCW, final, bits, m, size, mask, bestMask, bestPen, test, pen>>
  /\ UNCHANGED <<heap, ref, past>>

\* Encode, error correction, interleave, and the bit stream.
Encode ==
  /\ pc = "encode"
  /\ dataCW' = encodeData(bytes, version, ecLevel)
  /\ final' = interleave(dataCW', version, ecLevel)
  /\ bits' = StreamBits(final', version)
  /\ pc' = "build"
  /\ UNCHANGED <<text, ecLevel, bytes, version, m, size, mask, bestMask, bestPen,
                 test, pen, result, heap, ref, past>>

\* Build the matrix and place the data; the mask loop starts.
Build ==
  /\ pc = "build"
  /\ LET bm == buildMatrix(version)
     IN After(bm, /\ m' = placeData(bm.m, bm.size, bits)
                  /\ size' = bm.size)
  /\ ref' = makeGridRef(heap)
  /\ heap' = Store(heap, ref', m'.mod)
  /\ mask' = 0 /\ bestMask' = 0 /\ bestPen' = Infinity
  /\ pc' = "mask"
  /\ UNCHANGED <<text, ecLevel, bytes, version, dataCW, final, bits, test, pen, result,
                 past>>

\* The grid the mask loop scores for one mask, and the grid returned.
Masked(mod, res, sz, ecIdx, v, k) ==
  LET a == applyMask(mod, res, sz, k)
      f == writeFormatInfo(a, sz, ecIdx, k)
  IN IF v >= 7 THEN writeVersionInfo(f, sz, v) ELSE f

\* One iteration of the mask loop; test is a copy, m.mod is not written.
TryMask ==
  /\ pc = "mask" /\ mask < 8
  /\ test' = Masked(m.mod, m.res, size, EC_IDX(ecLevel), version, mask)
  /\ pen' = calcPenalty(test', size)
  /\ IF Less(pen', bestPen)
     THEN bestPen' = pen' /\ bestMask' = mask
     ELSE UNCHANGED <<bestPen, bestMask>>
  /\ mask' = mask + 1
  /\ UNCHANGED <<pc, text, ecLevel, bytes, version, dataCW, final, bits, m, size, result,
                 heap, ref, past>>

\* Apply the best mask and write the final information into m.mod, return it.
Finish ==
  /\ pc = "mask" /\ mask = 8
  /\ m' = [mod |-> Masked(m.mod, m.res, size, EC_IDX(ecLevel), version, bestMask),
           res |-> m.res]
  /\ result' = QRCode(m'.mod, size, version)
  /\ heap' = Store(heap, ref, m'.mod)
  /\ pc' = "done"
  /\ UNCHANGED <<text, ecLevel, bytes, version, dataCW, final, bits, size, mask,
                 bestMask, bestPen, test, pen, ref, past>>

Next ==
  \/ \E t \in Texts, e \in ECLevels : Call(t, e)
  \/ Encode
  \/ Build
  \/ TryMask
  \/ Finish

Spec == Init /\ [][Next]_vars

\* ------------------------------------------------------------------------
\* Version selection over the whole range of payload lengths
\* ------------------------------------------------------------------------

\* Payloads of every byte length up to MaxCapLen (the largest capacity of
\* the table is 2953 bytes, version 40 at level L), and the 10000-byte
\* payload of qr.test.ts.
MaxCapLen == 2960
LongLen == 10000

\* A text of n UTF-8 bytes: three-byte characters (the euro sign) and up to
\* two "A", so that the text is shorter than its encoding.
Payload(n) == Repeat(8364, n \div 3) \o Repeat(65, n % 3)

CapTexts == {Payload(n) : n \in 0..MaxCapLen} \cup {Repeat(65, LongLen)}

\* generateQR up to its two early returns, on these payloads.
NextCap == \E t \in CapTexts, e \in ECLevels : Call(t, e)

SpecCap == Init /\ [][NextCap]_vars

\* ------------------------------------------------------------------------
\* The whole pipeline on a payload that needs version 20 at level Q
\* ------------------------------------------------------------------------

\* Version 19 holds 442 bytes at level Q; BigLen bytes need version 20.
BigLen == 443

BigInputs == (Texts \X ECLevels) \cup {<<Repeat(65, BigLen), "Q">>}

NextBig ==
  \/ \E in \in BigInputs : Call(in[1], in[2])
  \/ Encode
  \/ Build
  \/ TryMask
  \/ Finish

SpecBig == Init /\ [][NextBig]_vars

\* ========================================================================
\* Properties
\* ========================================================================

\* The call has returned a QRCode.
Returned == pc = "done" /\ ~result.null

\* ------------------------------------------------------------------------
\* C1: whenever generateQR returns a result for a non-empty payload and a
\* level of {L, M, Q, H}, the result's version is in 1..40, its size is
\* version*4 + 17, and its modules are exactly size rows of exactly size
\* cells each.
\* ------------------------------------------------------------------------
C1_Shape ==
  Returned =>
    /\ Len(text) > 0 /\ ecLevel \in ECLevels
    /\ result.version \in 1..40
    /\ result.size = result.version * 4 + 17
    /\ DOMAIN result.modules = 0..(result.size - 1)
    /\ \A r \in DOMAIN result.modules :
         /\ DOMAIN result.modules[r] = 0..(result.size - 1)
         /\ \A c \in DOMAIN result.modules[r] : result.modules[r][c] \in BOOLEAN

\* A version-7 symbol (45 x 45) has been returned.
C1_Witness == Returned /\ result.version = 7 /\ result.size = 45

\* ------------------------------------------------------------------------
\* Reading a symbol as ISO/IEC 18004 prescribes.  Nothing below uses the
\* generator's operators: the function patterns are located by geometry,
\* the field arithmetic is done by shift and add, and the number of error
\* correction codewords per block follows from the symbol's codeword
\* capacity.  Coordinates are (y, x) = (row, column).
\* ------------------------------------------------------------------------

\* The 15-bit format word of the first copy: bits 0..7 down column 8 (rows
\* 0..5, 7, 8), bits 8..14 along row 8 (columns 7, 5..0).
StdFormatWord(g) ==
  LET cell(i) == IF i < 6 THEN g[i][8]
                 ELSE IF i < 8 THEN g[i + 1][8]
                 ELSE IF i = 8 THEN g[8][7]
                 ELSE g[8][14 - i]
  IN Sum(LAMBDA i : IF cell(i) THEN Pow2(i) ELSE 0, 0, 15)

\* The remainder of val by gen over GF(2); gen has degree deg, val less
\* than top + 1 bits.
RECURSIVE StdGf2Mod(_, _, _, _)
StdGf2Mod(val, gen, deg, top) ==
  IF top < deg THEN val
  ELSE StdGf2Mod(IF Bit(val, top) = 1 THEN Xor(val, gen * Pow2(top - deg)) ELSE val,
                 gen, deg, top - 1)

\* The level of a two-bit indicator.
StdLevel(ind) == CASE ind = 1 -> "L" [] ind = 0 -> "M" [] ind = 3 -> "Q" [] ind = 2 -> "H"

\* The data mask patterns, by reference number.
StdMask(k, y, x) ==
  CASE k = 0 -> (y + x) % 2 = 0
    [] k = 1 -> y % 2 = 0
    [] k = 2 -> x % 3 = 0
    [] k = 3 -> (y + x) % 3 = 0
    [] k = 4 -> ((y \div 2) + (x \div 3)) % 2 = 0
    [] k = 5 -> ((y * x) % 2) + ((y * x) % 3) = 0
    [] k = 6 -> (((y * x) % 2) + ((y * x) % 3)) % 2 = 0
    [] k = 7 -> (((y + x) % 2) + ((y * x) % 3)) % 2 = 0

\* The centre coordinates of the alignment patterns of version v.
StdAlignCentres(v) ==
  IF v = 1 THEN {}
  ELSE LET n == (v \div 7) + 2
           step == IF v = 32 THEN 26
                   ELSE (((v * 4) + (n * 2) + 1) \div ((n * 2) - 2)) * 2
       IN {6} \cup {((v * 4) + 10) - (i * step) : i \in 0..(n - 2)}

\* Is (y, x) a function module of a version-v symbol: finder patterns with
\* separators and format information, timing patterns, alignment patterns,
\* version information.
StdIsFunction(v, y, x) ==
  LET sz == (v * 4) + 17
      cs == StdAlignCentres(v)
  IN \/ (y <= 8 /\ x <= 8) \/ (y <= 8 /\ x >= sz - 8) \/ (y >= sz - 8 /\ x <= 8)
     \/ y = 6 \/ x = 6
     \/ \E cy \in cs, cx \in cs :
          /\ ~(cy = 6 /\ cx = 6) /\ ~(cy = 6 /\ cx = sz - 7) /\ ~(cy = sz - 7 /\ cx = 6)
          /\ Abs(y - cy) <= 2 /\ Abs(x - cx) <= 2
     \/ (v >= 7 /\ ((y < 6 /\ x >= sz - 11) \/ (x < 6 /\ y >= sz - 11)))

StdFunctionMap(v) ==
  LET sz == (v * 4) + 17
  IN Force([y \in 0..(sz - 1) |-> [x \in 0..(sz - 1) |-> StdIsFunction(v, y, x)]])

\* The unmasked bits of the data region, in placement order: column pairs
\* from the right, skipping the timing column, alternately upwards and
\* downwards, right cell before left cell.
StdReadBits(g, fn, k, sz) ==
  LET pairs == (sz - 1) \div 2
      step(acc, t) ==
        LET p == t \div (2 * sz)
            vert == (t % (2 * sz)) \div 2
            right == IF (sz - 1) - (2 * p) > 6 THEN (sz - 1) - (2 * p)
                     ELSE (sz - 2) - (2 * p)
            x == right - (t % 2)
            upward == ((right + 1) \div 2) % 2 = 0
            y == IF upward THEN (sz - 1) - vert ELSE vert
        IN IF fn[y][x] THEN acc
           ELSE Append(acc, IF g[y][x] # StdMask(k, y, x) THEN 1 ELSE 0)
  IN After(g, After(fn, Fold(step, <<>>, 0, pairs * 2 * sz)))

\* The codewords of a bit sequence, most significant bit first; trailing
\* bits that do not fill a codeword are remainder bits.
StdCodewords(bs) ==
  After(bs, Force([i \in 0..((Len(bs) \div 8) - 1) |->
    (128 * bs[(8 * i) + 1]) + (64 * bs[(8 * i) + 2]) + (32 * bs[(8 * i) + 3])
    + (16 * bs[(8 * i) + 4]) + (8 * bs[(8 * i) + 5]) + (4 * bs[(8 * i) + 6])
    + (2 * bs[(8 * i) + 7]) + bs[(8 * i) + 8]]))

\* Multiplication in GF(256) modulo x^8 + x^4 + x^3 + x^2 + 1.
RECURSIVE StdGfMul(_, _)
StdGfMul(a, b) ==
  IF b = 0 THEN 0
  ELSE LET a2 == IF 2 * a >= 256 THEN Xor(2 * a, 285) ELSE 2 * a
       IN Xor(IF b % 2 = 1 THEN a ELSE 0, StdGfMul(a2, b \div 2))

\* alpha^j for alpha = 2 and j in 0..254, as the sequence <<alpha^0, ..>>.
StdAlphaPows == Fold(LAMBDA acc, j : Append(acc, StdGfMul(acc[j], 2)), <<1>>, 1, 255)

StdAlphaPow(j) == StdAlphaPows[j + 1]

\* The value at x of the polynomial with coefficients c[0..n-1], highest
\* degree first.
StdPolyEval(c, n, x) ==
  After(x, Fold(LAMBDA acc, i : Xor(StdGfMul(acc, x), c[i]), 0, 0, n))

\* The block structure of (v, level): nb blocks, the first g1n with g1k data
\* codewords, the others with g2k = g1k + 1 (the block counts and data
\* sizes of the standard's table); the total codewords total are those the
\* data region holds, and each block has (total - data) / nb error
\* correction codewords.
StdStructure(v, level, total) ==
  LET e == EC_BLOCKS[v][EC_IDX(level) + 1]
      nb == e[2] + e[4]
      nData == (e[2] * e[3]) + (e[4] * e[5])
  IN [nb |-> nb, g1n |-> e[2], g1k |-> e[3], g2k |-> e[5], nData |-> nData,
      ecPer |-> (total - nData) \div nb]

\* Data codeword i of block b, and error correction codeword i of block b,
\* in the interleaved sequence cw.
StdDataAt(cw, s, b, i) ==
  IF i < s.g1k THEN cw[(i * s.nb) + b] ELSE cw[(s.g1k * s.nb) + (b - s.g1n)]

StdEcAt(cw, s, b, i) == cw[s.nData + (i * s.nb) + b]

StdBlockLen(s, b) == IF b < s.g1n THEN s.g1k ELSE s.g2k

\* Block b, data then error correction codewords.
StdBlock(cw, s, b) ==
  LET k == StdBlockLen(s, b)
  IN Force([i \in 0..((k + s.ecPer) - 1) |->
       IF i < k THEN StdDataAt(cw, s, b, i) ELSE StdEcAt(cw, s, b, i - k)])

\* Is block b a codeword of the Reed-Solomon code with generator
\* (x - alpha^0)...(x - alpha^(ecPer-1)): all its syndromes are zero.
StdBlockValid(cw, s, b) ==
  LET blk == StdBlock(cw, s, b)
      n == StdBlockLen(s, b) + s.ecPer
  IN After(blk, \A j \in 0..(s.ecPer - 1) : StdPolyEval(blk, n, StdAlphaPow(j)) = 0)

\* The data codewords, block after block.
StdData(cw, s) ==
  LET first == s.g1n * s.g1k
  IN After(cw, Force([q \in 0..(s.nData - 1) |->
       IF q < first THEN StdDataAt(cw, s, q \div s.g1k, q % s.g1k)
       ELSE StdDataAt(cw, s, s.g1n + ((q - first) \div s.g2k), (q - first) % s.g2k)]))

\* The value of the n bits from bit position p of the codeword sequence d.
StdBits(d, p, n) ==
  Sum(LAMBDA i : Bit(d[(p + i) \div 8], 7 - ((p + i) % 8)) * Pow2((n - 1) - i), 0, n)

\* A single byte-mode segment followed by the terminator (as many of its
\* four zero bits as fit).
StdParse(d, nData, v) ==
  LET cc == IF v <= 9 THEN 8 ELSE 16
      avail == 8 * nData
      count == StdBits(d, 4, cc)
      end == 4 + cc + (8 * count)
  IN IF avail < 4 + cc \/ StdBits(d, 0, 4) # 4 THEN [ok |-> FALSE, bytes |-> <<>>]
     ELSE IF end > avail \/ StdBits(d, end, Min(4, avail - end)) # 0
          THEN [ok |-> FALSE, bytes |-> <<>>]
     ELSE [ok |-> TRUE, bytes |-> [t \in 1..count |-> StdBits(d, 4 + cc + (8 * (t - 1)), 8)]]

\* The payload read from grid g of size sz; ok is false when the format
\* information, a block, or the segment is not valid.
StdDecode(g, sz) ==
  LET v == (sz - 17) \div 4
      w == Xor(StdFormatWord(g), 21522)
      level == StdLevel(w \div 8192)
      k == (w \div 1024) % 8
      bs == StdReadBits(g, StdFunctionMap(v), k, sz)
      cw == StdCodewords(bs)
      s == StdStructure(v, level, Len(bs) \div 8)
      d == StdData(cw, s)
  IN IF StdGf2Mod(w, 1335, 10, 14) # 0 THEN [ok |-> FALSE, bytes |-> <<>>]
     ELSE After(bs, After(cw, After(s,
            IF \E b \in 0..(s.nb - 1) : ~StdBlockValid(cw, s, b)
            THEN [ok |-> FALSE, bytes |-> <<>>]
            ELSE After(d, StdParse(d, s.nData, v)))))

\* ------------------------------------------------------------------------
\* C2: round trip.  Reading the returned grid as the standard prescribes
\* (level and mask from the format information, unmasking, zig-zag order,
\* de-interleaving with the standard block structure, every block a valid
\* Reed-Solomon codeword, byte mode) recovers exactly the payload bytes.
\* ------------------------------------------------------------------------
C2_RoundTrip ==
  Returned =>
    LET d == StdDecode(result.modules, result.size)
    IN After(d, d.ok /\ d.bytes = bytes)

\* ------------------------------------------------------------------------
\* The capacity inequality, as the specification states it
\* ------------------------------------------------------------------------

\* The UTF-8 byte length of a text: one byte per character, one more from
\* U+0080 on, one more from U+0800 on.
ClaimUtf8Len(t) ==
  Len(t) + Cardinality({i \in 1..Len(t) : t[i] >= 128})
         + Cardinality({i \in 1..Len(t) : t[i] >= 2048})

ClaimCcBits(v) == IF v <= 9 THEN 8 ELSE 16

\* (g1n*g1k + g2n*g2k) * 8 for the table entry of (v, e).
ClaimCapBits(v, e) ==
  LET t == EC_BLOCKS[v][EC_IDX(e) + 1]
  IN ((t[2] * t[3]) + (t[4] * t[5])) * 8

ClaimFits(B, v, e) == 4 + ClaimCcBits(v) + (8 * B) <= ClaimCapBits(v, e)

\* The largest byte length that fits (v, e).
ClaimBmax(v, e) == ((ClaimCapBits(v, e) - 4) - ClaimCcBits(v)) \div 8

\* ------------------------------------------------------------------------
\* C3: generateQR(text, e) returns null exactly when the text is empty or
\* no version of 1..40 satisfies 4 + ccBits(v) + 8*B <= capBits(v, e), B the
\* UTF-8 byte length of the text; otherwise the call goes on to build a
\* QRCode.  A 10000-byte payload at level H returns null.
\* ------------------------------------------------------------------------
C3_NullExactly ==
  pc # "idle" =>
    LET B == ClaimUtf8Len(text)
        none == Len(text) = 0 \/ \A v \in 1..40 : ~ClaimFits(B, v, ecLevel)
    IN /\ (pc = "done" /\ result.null) <=> none
       /\ none => result = Null
       /\ ~none => (pc = "encode" \/ (pc = "done" /\ ~result.null))
       /\ (B = LongLen /\ ecLevel = "H") => (pc = "done" /\ result.null)

\* The 10000-byte payload at level H has returned null.
C3_Witness ==
  pc = "done" /\ result.null /\ Len(text) = LongLen /\ Len(bytes) = LongLen /\ ecLevel = "H"

\* ------------------------------------------------------------------------
\* C4: version selection is minimal.  For every byte length B >= 1 and
\* level e, the selected version v satisfies
\* 4 + ccBits(v) + 8*B <= (g1n*g1k + g2n*g2k)*8 for the table entry of
\* (v, e), with ccBits 8 up to version 9 and 16 from version 10, and no
\* smaller version satisfies it.
\* ------------------------------------------------------------------------
C4_MinimalVersion ==
  (pc = "encode" \/ (pc = "done" /\ ~result.null)) =>
    LET B == ClaimUtf8Len(text)
    IN /\ B >= 1 /\ B = Len(bytes)
       /\ version \in 1..40
       /\ ClaimFits(B, version, ecLevel)
       /\ \A w \in 1..(version - 1) : ~ClaimFits(B, w, ecLevel)

\* The largest payload of version 9 at level M (180 bytes) has selected
\* version 9, where the character count is still 8 bits wide.
C4_Witness ==
  pc = "encode" /\ ecLevel = "M" /\ version = 9 /\ Len(bytes) = 180 /\ Len(text) = 60

\* ------------------------------------------------------------------------
\* C5: capacity boundary.  For every level e and version v, a payload of
\* Bmax(v, e) bytes selects exactly version v, and a payload of
\* Bmax(v, e) + 1 bytes selects version v + 1 when v < 40 and returns null
\* when v = 40.
\* ------------------------------------------------------------------------
C5_Boundary ==
  pc # "idle" =>
    LET B == ClaimUtf8Len(text)
    IN \A v \in 1..40 :
         /\ B = ClaimBmax(v, ecLevel) => (pc = "encode" /\ version = v)
         /\ B = ClaimBmax(v, ecLevel) + 1 =>
              IF v < 40 THEN pc = "encode" /\ version = v + 1
              ELSE pc = "done" /\ result.null

\* One byte more than version 40 holds at level L (2953 bytes) has returned
\* null.
C5_Witness ==
  /\ pc = "done" /\ result.null /\ ecLevel = "L"
  /\ Len(bytes) = ClaimBmax(40, "L") + 1 /\ Len(bytes) = 2954

\* ------------------------------------------------------------------------
\* Reading the format and version information of a grid
\* ------------------------------------------------------------------------

\* The number whose bit i is cell(i), for i in 0..n-1.
ClaimWord(cell(_), n) == Sum(LAMBDA i : IF cell(i) THEN Pow2(i) ELSE 0, 0, n)

\* The copy along column 8: bits 0..5 in rows 0..5, bit 6 in row 7, bit 7
\* in row 8, bits 8..14 in rows size-7..size-1.
ClaimFormatCol(g, sz) ==
  ClaimWord(LAMBDA i : IF i < 6 THEN g[i][8]
                       ELSE IF i = 6 THEN g[7][8]
                       ELSE IF i = 7 THEN g[8][8]
                       ELSE g[(sz - 7) + (i - 8)][8], 15)

\* The copy along row 8: bits 0..7 in columns size-1..size-8, bit 8 in
\* column 7, bits 9..14 in columns 5..0.
ClaimFormatRow(g, sz) ==
  ClaimWord(LAMBDA i : IF i < 8 THEN g[8][(sz - 1) - i]
                       ELSE IF i = 8 THEN g[8][7]
                       ELSE g[8][5 - (i - 9)], 15)

\* The level indicators L = 01, M = 00, Q = 11, H = 10.
ClaimIndicator(e) == CASE e = "L" -> 1 [] e = "M" -> 0 [] e = "Q" -> 3 [] e = "H" -> 2

\* The mask index the format information of g names.
ClaimMaskOf(g, sz) == (Xor(ClaimFormatCol(g, sz), 21522) \div 1024) % 8

\* The bottom-left and the top-right version-information blocks.
ClaimVersionBL(g, sz) == ClaimWord(LAMBDA i : g[(sz - 11) + (i % 3)][i \div 3], 18)
ClaimVersionTR(g, sz) == ClaimWord(LAMBDA i : g[i \div 3][(sz - 11) + (i % 3)], 18)

\* Cell (r, c) of grid g is cell (r, c) of the unmasked grid d under mask k.
ClaimMaskedData(g, d, k, r, c) == g[r][c] = (d[r][c] # StdMask(k, r, c))

\* The step that returns the QRCode.
Returning == pc = "mask" /\ pc' = "done"

\* ------------------------------------------------------------------------
\* C6: in every output both copies of the format information hold the same
\* 15-bit word w; w XOR 0x5412 is divisible by 0x537 over GF(2), and its
\* top five bits are (indicator << 3) | mask, with the indicator of the
\* requested level and the mask index that was applied to the data cells of
\* the output.
\* ------------------------------------------------------------------------
C6_FormatInfo ==
  [][Returning =>
      LET g == result'.modules
          w == ClaimFormatCol(g, size)
          u == Xor(w, 21522)
      IN /\ ClaimFormatRow(g, size) = w
         /\ StdGf2Mod(u, 1335, 10, 14) = 0
         /\ u \div 1024 = (ClaimIndicator(ecLevel) * 8) + ((u \div 1024) % 8)
         /\ \A r \in 0..(size - 1), c \in 0..(size - 1) :
              ~m.res[r][c] => ClaimMaskedData(g, m.mod, (u \div 1024) % 8, r, c)]_vars

\* "1" at level M has been returned with the format word of (M, mask 6).
C6_Witness ==
  /\ Returned /\ text = <<49>> /\ ecLevel = "M"
  /\ ClaimFormatCol(result.modules, size) = 20375
  /\ ClaimFormatRow(result.modules, size) = 20375

\* ------------------------------------------------------------------------
\* C7: in every output of version 7 or more, the two 6x3 version blocks
\* hold the same 18-bit word, divisible by 0x1F25 over GF(2), whose top six
\* bits are the version; in every output of version 6 or less no version
\* information is written: the cells of the two blocks are data cells and
\* hold the masked data.
\* ------------------------------------------------------------------------
C7_VersionInfo ==
  [][Returning =>
      LET g == result'.modules
          v == result'.version
          bl == ClaimVersionBL(g, size)
      IN IF v >= 7
         THEN /\ ClaimVersionTR(g, size) = bl
              /\ StdGf2Mod(bl, 7973, 12, 17) = 0
              /\ bl \div 4096 = v
         ELSE \A i \in 0..17 :
                LET a == (size - 11) + (i % 3)
                    b == i \div 3
                IN /\ ~m.res[a][b] /\ ~m.res[b][a]
                   /\ ClaimMaskedData(g, m.mod, ClaimMaskOf(g, size), a, b)
                   /\ ClaimMaskedData(g, m.mod, ClaimMaskOf(g, size), b, a)]_vars

\* A version-7 output carries the version word 0x07C94.
C7_Witness ==
  /\ Returned /\ result.version = 7
  /\ ClaimVersionBL(result.modules, size) = 31892
  /\ ClaimVersionTR(result.modules, size) = 31892

\* ------------------------------------------------------------------------
\* C8: in every output each of the three 7x7 regions at (0, 0), (0, size-7)
\* and (size-7, 0) is the canonical finder pattern (dark outer ring and 3x3
\* centre, light between), and the separator around each of them, inside
\* the grid, is light.
\* ------------------------------------------------------------------------
ClaimFinderAt(g, r0, c0) ==
  \A dr \in 0..6, dc \in 0..6 :
    g[r0 + dr][c0 + dc] <=>
      (dr \in {0, 6} \/ dc \in {0, 6} \/ (dr \in 2..4 /\ dc \in 2..4))

\* The cells at distance 1 of the 7x7 region at (r0, c0), inside the grid.
ClaimSeparatorLight(g, sz, r0, c0) ==
  \A r \in (r0 - 1)..(r0 + 7), c \in (c0 - 1)..(c0 + 7) :
    (/\ r \in 0..(sz - 1) /\ c \in 0..(sz - 1)
     /\ (r \in {r0 - 1, r0 + 7} \/ c \in {c0 - 1, c0 + 7})) => ~g[r][c]

C8_Finders ==
  Returned =>
    LET g == result.modules
        sz == result.size
    IN /\ ClaimFinderAt(g, 0, 0) /\ ClaimSeparatorLight(g, sz, 0, 0)
       /\ ClaimFinderAt(g, 0, sz - 7) /\ ClaimSeparatorLight(g, sz, 0, sz - 7)
       /\ ClaimFinderAt(g, sz - 7, 0) /\ ClaimSeparatorLight(g, sz, sz - 7, 0)

\* An output whose mask selects the corner (0, 0) and the separator cell
\* (7, 7), which nevertheless are dark and light.
C8_Witness ==
  /\ Returned /\ StdMask(bestMask, 0, 0) /\ StdMask(bestMask, 7, 7)
  /\ result.modules[0][0] /\ ~result.modules[7][7]

\* ------------------------------------------------------------------------
\* C9: the cell at row size-8, column 8 is dark in the grid that holds the
\* placed data, in each of the eight trial grids that are scored, and in
\* the output.
\* ------------------------------------------------------------------------
C9_DarkModule ==
  /\ pc = "mask" => m.mod[size - 8][8]
  /\ (pc \in {"mask", "done"} /\ mask >= 1) => test[size - 8][8]
  /\ Returned => result.modules[result.size - 8][8]

\* All eight trial grids of a level-H call are scored and the output is
\* returned, with the cell dark.
C9_Witness ==
  /\ Returned /\ ecLevel = "H" /\ mask = 8
  /\ test[size - 8][8] /\ result.modules[size - 8][8]

\* ------------------------------------------------------------------------
\* C10: the returned grid is the trial grid (masked data, format
\* information of that mask, version information from version 7 on) of a
\* mask index k whose penalty is at most that of every trial grid, and
\* every mask index below k has a strictly larger penalty.
\* ------------------------------------------------------------------------
ClaimTrial(k) == Masked(m.mod, m.res, size, EC_IDX(ecLevel), version, k)

C10_ArgMin ==
  [][Returning =>
      LET P == Force([k \in 0..7 |-> calcPenalty(ClaimTrial(k), size)])
      IN After(P, \E k \in 0..7 :
                    /\ \A j \in 0..7 : P[k] <= P[j]
                    /\ \A j \in 0..(k - 1) : P[j] > P[k]
                    /\ result'.modules = ClaimTrial(k))]_vars

\* "1" at level M has been returned with mask 6, of penalty 298.
C10_Witness ==
  /\ Returned /\ text = <<49>> /\ ecLevel = "M"
  /\ bestMask = 6 /\ bestPen = 298 /\ ClaimMaskOf(result.modules, size) = 6

\* ------------------------------------------------------------------------
\* C11: generateQR on the 72-byte text "The quick brown fox jumps over the
\* lazy dog. 0123456789 ABCDEFGHIJKLMNOP" at level M returns a symbol of
\* version 7 or more, so that the version information is written.
\* ------------------------------------------------------------------------
FoxAtM == text = FoxText /\ ecLevel = "M"

MaxCalls == 2

\* Arguments of the calls: equal and different arguments, symbols of equal
\* and of different size, and the empty text.
AgainInputs ==
  {<<t, e>> : t \in {<<49>>, <<104, 101, 108, 108, 111, 32, 119, 111, 114, 108, 100>>},
              e \in {"L", "H"}}
    \cup {<<Repeat(65, 0), "M">>}

\* The call has returned; its locals are gone, the caller holds the value.
Again ==
  /\ pc = "done" /\ Len(past) < MaxCalls - 1
  /\ past' = Append(past, [text |-> text, ecLevel |-> ecLevel, result |-> result,
                           ref |-> IF result.null THEN 0 ELSE ref])
  /\ pc' = "idle"
  /\ text' = <<>> /\ ecLevel' = "M"
  /\ bytes' = <<>> /\ version' = 0
  /\ dataCW' = <<>> /\ final' = <<>> /\ bits' = <<>>
  /\ m' = NoMatrix /\ size' = 0
  /\ mask' = 0 /\ bestMask' = 0 /\ bestPen' = Infinity
  /\ test' = NoGrid /\ pen' = 0
  /\ result' = Null /\ ref' = 0
  /\ UNCHANGED heap

NextAgain ==
  \/ \E a \in AgainInputs : Call(a[1], a[2])
  \/ Encode
  \/ Build
  \/ TryMask
  \/ Finish
  \/ Again

SpecAgain == Init /\ [][NextAgain]_vars

C12_WitnessSame ==
  /\ Len(past) = 1 /\ Returned /\ past[1].text = text /\ past[1].ecLevel = ecLevel

\* ------------------------------------------------------------------------
\* C13: the bit stream generateQR builds has
\* 8 * (g1n*g1k + g2n*g2k + ecPerBlock*(g1n + g2n)) + REM_BITS[version - 1]
\* bits, and that is the number of unreserved cells of buildMatrix(version):
\* placeData has a cell for every bit and a bit for every cell.
\* ------------------------------------------------------------------------
ClaimUnreserved(res, sz) ==
  Cardinality({rc \in (0..(sz - 1)) \X (0..(sz - 1)) : ~res[rc[1]][rc[2]]})

ClaimStreamLen(v, e) ==
  LET b == EC_BLOCKS[v][EC_IDX(e) + 1]
  IN 8 * ((b[2] * b[3]) + (b[4] * b[5]) + (b[1] * (b[2] + b[4]))) + REM_BITS[v]

C13_StreamFillsGrid ==
  pc = "mask" =>
    /\ Len(bits) = ClaimStreamLen(version, ecLevel)
    /\ Len(bits) = ClaimUnreserved(m.res, size)
    /\ PlaceLoop(buildMatrix(version).m, size, bits).idx = Len(bits)

\* ------------------------------------------------------------------------
\* C14: placeData visits every unreserved cell exactly once and no reserved
\* cell, in column pairs from the right edge, alternately upward and
\* downward, the right cell of a pair first; column 6 is never visited and
\* all its cells are reserved; the k-th visited cell receives bit k, and the
\* cells after the end of the stream are light.
\* ------------------------------------------------------------------------

\* The cell at position p of the zig-zag over all cells: pair p \div 2size
\* counted from the right edge, the pairs left of column 6 one column further
\* left.
ClaimCellAt(sz, p) ==
  LET k == p \div (2 * sz)
      v == (p % (2 * sz)) \div 2
      right == IF 2 * k <= sz - 9 THEN sz - 1 - (2 * k) ELSE sz - 2 - (2 * k)
  IN <<IF k % 2 = 0 THEN sz - 1 - v ELSE v, right - (p % 2)>>

\* The unreserved cells in zig-zag order.
ClaimOrder(res, sz) ==
  Fold(LAMBDA acc, p :
         LET cell == ClaimCellAt(sz, p)
         IN IF res[cell[1]][cell[2]] THEN acc ELSE Append(acc, cell),
       <<>>, 0, (sz - 1) * sz)

Placed == pc = "mask" /\ mask = 0

C14_ZigZag ==
  Placed =>
    LET bm == buildMatrix(version).m
        vis == PlaceVisits(bm, size)
        ord == ClaimOrder(bm.res, size)
        n == Len(vis)
    IN After(bm, After(vis, After(ord, After(n,
         /\ vis = ord
         /\ n = ClaimUnreserved(bm.res, size)
         /\ Cardinality({vis[k] : k \in 1..n}) = n
         /\ \A k \in 1..n : /\ ~bm.res[vis[k][1]][vis[k][2]]
                            /\ vis[k][2] # 6
                            /\ m.mod[vis[k][1]][vis[k][2]] = (k <= Len(bits) /\ bits[k] = 1)
         /\ \A r \in 0..(size - 1) :
              /\ bm.res[r][6]
              /\ \A c \in 0..(size - 1) : bm.res[r][c] => m.mod[r][c] = bm.mod[r][c]
         /\ m.res = bm.res))))

\* The data of a version-20 symbol has been placed, and the stream ended
\* before the cells did.
C14_Witness ==
  Placed /\ version = 20 /\ Len(bits) < ClaimUnreserved(m.res, size)

\* ------------------------------------------------------------------------
\* generateQR up to its bit stream: payloads of every byte length up to
\* MaxEncLen at the four levels, and for every (version, level) the longest
\* payload the version holds, for the versions up to MaxEncVersion and for
\* version 40.
\* ------------------------------------------------------------------------
MaxEncLen == 130
MaxEncVersion == 22

EncInputs ==
  ({Payload(n) : n \in 0..MaxEncLen} \X ECLevels)
    \cup {<<Payload(ClaimBmax(v, e)), e>> : v \in (1..MaxEncVersion) \cup {40}, e \in ECLevels}

NextEnc ==
  \/ \E a \in EncInputs : Call(a[1], a[2])
  \/ Encode

SpecEnc == Init /\ [][NextEnc]_vars

\* ------------------------------------------------------------------------
\* C15: for a payload of B bytes and the version chosen for it, encodeData
\* returns exactly g1n*g1k + g2n*g2k codewords, whose bits MSB first are:
\* 0100; B as a number of ccBits bits (B < 2^ccBits); the B payload bytes;
\* min(4, capBits - bitsSoFar) zero bits; zero bits up to the next byte
\* boundary; then the codewords 0xEC, 0x11, 0xEC, .. up to capBits bits and
\* no further.
\* ------------------------------------------------------------------------

\* Bit k (from 0) of the codewords read MSB first.
ClaimBitAt(cw, k) == (cw[(k \div 8) + 1] \div Pow2(7 - (k % 8))) % 2

\* The number written in bits from..from+len-1, most significant first.
ClaimField(cw, from, len) ==
  Sum(LAMBDA i : ClaimBitAt(cw, from + i) * Pow2(len - 1 - i), 0, len)

Encoded == pc = "build"

C15_EncodeData ==
  Encoded =>
    LET B == Len(bytes)
        cc == ClaimCcBits(version)
        capBits == ClaimCapBits(version, ecLevel)
        soFar == 4 + cc + (8 * B)
        term == Min(4, capBits - soFar)
        aligned == 8 * ((soFar + term + 7) \div 8)
    IN /\ 8 * Len(dataCW) = capBits
       /\ \A j \in 1..Len(dataCW) : dataCW[j] \in 0..255
       /\ ClaimField(dataCW, 0, 4) = 4
       /\ B < Pow2(cc) /\ ClaimField(dataCW, 4, cc) = B
       /\ \A i \in 1..B : ClaimField(dataCW, 4 + cc + (8 * (i - 1)), 8) = bytes[i]
       /\ term >= 0 /\ aligned <= capBits
       /\ \A k \in soFar..(aligned - 1) : ClaimBitAt(dataCW, k) = 0
       /\ \A j \in ((aligned \div 8) + 1)..Len(dataCW) :
            dataCW[j] = IF (j - (aligned \div 8)) % 2 = 1 THEN 236 ELSE 17

\* Payloads with pad codewords after them, one at each character-count width;
\* and a payload that fills its version, so that there is none.
C15_Witness ==
  /\ Encoded /\ version >= 10
  /\ 8 * Len(dataCW) >= 4 + 16 + (8 * Len(bytes)) + 4 + 16

C15_WitnessFull ==
  Encoded /\ version <= 9 /\ 8 * Len(dataCW) = 4 + 8 + (8 * Len(bytes)) + 4

\* ------------------------------------------------------------------------
\* C16: interleave splits the data sequentially into g1n blocks of g1k and
\* g2n blocks of g2k codewords and emits, for i = 0, 1, .., the i-th data
\* codeword of every block that has one, in block order, and then for
\* i = 0..ecPerBlock-1 the i-th EC codeword of every block in block order.
\* The output holds every data codeword exactly once and has
\* g1n*g1k + g2n*g2k + ecPerBlock*(g1n + g2n) codewords.
\* ------------------------------------------------------------------------

\* Block (from 0) and index in the block of data codeword d (from 0).
ClaimBlockOf(t, d) ==
  IF d < t[2] * t[3] THEN <<d \div t[3], d % t[3]>>
  ELSE <<t[2] + ((d - (t[2] * t[3])) \div t[5]), (d - (t[2] * t[3])) % t[5]>>

\* Where the output holds codeword i of block b: after the codewords of
\* index below i of all blocks and the codewords of index i of the blocks
\* before b.
ClaimDataPos(t, b, i) ==
  (t[2] * Min(i, t[3])) + (t[4] * Min(i, t[5]))
    + (IF t[3] > i THEN Min(b, t[2]) ELSE 0)
    + (IF t[5] > i THEN Max(0, b - t[2]) ELSE 0)

C16_Interleave ==
  Encoded =>
    LET t == EC_BLOCKS[version][EC_IDX(ecLevel) + 1]
        total == (t[2] * t[3]) + (t[4] * t[5])
        nb == t[2] + t[4]
        pos == [d \in 0..(total - 1) |->
                  ClaimDataPos(t, ClaimBlockOf(t, d)[1], ClaimBlockOf(t, d)[2])]
        first == [b \in 0..(nb - 1) |->
                    IF b < t[2] THEN b * t[3] ELSE (t[2] * t[3]) + ((b - t[2]) * t[5])]
        ecOf == [b \in 0..(nb - 1) |->
                   rsEncode(SubSeq(dataCW, first[b] + 1,
                                   first[b] + (IF b < t[2] THEN t[3] ELSE t[5])), t[1])]
    IN After(Force(pos), After(Force(ecOf),
         /\ Len(dataCW) = total
         /\ Len(final) = total + (t[1] * nb)
         /\ \A d \in 0..(total - 1) : pos[d] \in 0..(total - 1) /\ final[pos[d] + 1] = dataCW[d + 1]
         /\ Cardinality({pos[d] : d \in 0..(total - 1)}) = total
         /\ \A d \in 1..(total - 1) :
              \* in index order first, then in block order
              LET p == ClaimBlockOf(t, d - 1)  q == ClaimBlockOf(t, d)
              IN (p[1] = q[1]) => pos[d - 1] < pos[d]
         /\ \A b \in 0..(nb - 1) : \A i \in 0..(t[1] - 1) :
              final[total + (i * nb) + b + 1] = ecOf[b][i + 1]))

\* An entry with two groups, where the short blocks are skipped at the last
\* index.
C16_Witness ==
  /\ Encoded /\ EC_BLOCKS[version][EC_IDX(ecLevel) + 1][4] > 0
  /\ EC_BLOCKS[version][EC_IDX(ecLevel) + 1][2] > 1 /\ version = 40

\* ------------------------------------------------------------------------
\* generateQR up to its bit stream on short payloads, and on payloads whose
\* versions use the remaining error-correction counts of the table.
\* ------------------------------------------------------------------------
MaxRsLen == 40

RsInputs ==
  ({Payload(n) : n \in 0..MaxRsLen} \X ECLevels)
    \cup {<<Payload(ClaimBmax(a[1], a[2])), a[2]>> :
            a \in {<<4, "L">>, <<5, "M">>, <<3, "M">>, <<9, "L">>}}

NextRs ==
  \/ \E a \in RsInputs : Call(a[1], a[2])
  \/ Encode

SpecRs == Init /\ [][NextRs]_vars

\* ------------------------------------------------------------------------
\* C17: rsEncode(data, d) returns d codewords r such that the polynomial with
\* coefficients data followed by r, highest degree first, evaluates to 0 in
\* GF(256) (primitive polynomial 0x11D, alpha = 2) at alpha^0 .. alpha^(d-1),
\* the roots of the generator polynomial; buildGenPoly(d) has d + 1
\* coefficients, the leading one 1.
\* ------------------------------------------------------------------------

\* The EC counts of the table.
ClaimEcCounts == {EC_BLOCKS[v][l][1] : v \in 1..40, l \in 1..4}

\* The roots alpha^0 .. alpha^(d-1) of the polynomial c of n coefficients.
ClaimRoots(c, n, d) == \A j \in 0..(d - 1) : StdPolyEval(c, n, StdAlphaPow(j)) = 0

C17_GenPoly ==
  \A d \in ClaimEcCounts :
    LET g == buildGenPoly(d)
    IN After(g, /\ Len(g) = d + 1 /\ g[1] = 1
                /\ \A j \in 1..(d + 1) : g[j] \in 0..255
                /\ ClaimRoots([i \in 0..d |-> g[i + 1]], d + 1, d)
                /\ StdPolyEval([i \in 0..d |-> g[i + 1]], d + 1, StdAlphaPow(d)) # 0)

C17_ReedSolomon ==
  Encoded =>
    LET t == EC_BLOCKS[version][EC_IDX(ecLevel) + 1]
        d == t[1]
        nb == t[2] + t[4]
    IN /\ d \in ClaimEcCounts
       /\ \A b \in 0..(nb - 1) :
            LET k == IF b < t[2] THEN t[3] ELSE t[5]
                from == IF b < t[2] THEN b * t[3] ELSE (t[2] * t[3]) + ((b - t[2]) * t[5])
                data == SubSeq(dataCW, from + 1, from + k)
                r == rsEncode(data, d)
                c == Force([i \in 0..(k + d - 1) |-> IF i < k THEN data[i + 1] ELSE r[i - k + 1]])
            IN After(data, After(r, After(c,
                 /\ Len(r) = d
                 /\ \A i \in 1..d : r[i] \in 0..255
                 /\ ClaimRoots(c, k + d, d))))
       /\ C17_GenPoly

\* A block with the largest EC count of the table has been encoded.
C17_Witness ==
  Encoded /\ EC_BLOCKS[version][EC_IDX(ecLevel) + 1][1] = 30 /\ Len(final) > Len(dataCW)

\* ------------------------------------------------------------------------
\* C18: for every mask index applyMask leaves the reserved cells unchanged
\* and inverts an unreserved cell (r, c) exactly when the predicate of the
\* index holds at (r, c); applied twice it restores the grid.  So in every
\* output the timing cells (6, i) and (i, 6), 8 <= i < size - 8, are dark
\* exactly for even i, and every alignment pattern placed keeps its shape.
\* ------------------------------------------------------------------------
ClaimTiming(g, sz) ==
  \A i \in 8..(sz - 9) : (g[6][i] <=> i % 2 = 0) /\ (g[i][6] <=> i % 2 = 0)

\* The centres of the alignment patterns of a version-v symbol: the pairs of
\* centre coordinates but the three in the finder patterns.
ClaimAlignAt(v) ==
  {p \in StdAlignCentres(v) \X StdAlignCentres(v) :
     ~(p[1] = 6 /\ p[2] = 6) /\ ~(p[1] = 6 /\ p[2] = (v * 4) + 10)
       /\ ~(p[1] = (v * 4) + 10 /\ p[2] = 6)}

ClaimAlignShape(g, v) ==
  \A p \in ClaimAlignAt(v) : \A dr \in -2..2, dc \in -2..2 :
    g[p[1] + dr][p[2] + dc] <=> (Abs(dr) = 2 \/ Abs(dc) = 2 \/ (dr = 0 /\ dc = 0))

C18_ApplyMask ==
  /\ Placed =>
       \A k \in 0..7 :
         LET once == applyMask(m.mod, m.res, size, k)
             twice == applyMask(once, m.res, size, k)
         IN After(once,
              /\ \A r \in 0..(size - 1), c \in 0..(size - 1) :
                   IF m.res[r][c] THEN once[r][c] = m.mod[r][c]
                   ELSE (once[r][c] # m.mod[r][c]) <=> StdMask(k, r, c)
              /\ twice = m.mod)
  /\ (pc = "mask" /\ mask >= 1) => (ClaimTiming(test, size) /\ ClaimAlignShape(test, version))
  /\ Returned => /\ ClaimTiming(result.modules, result.size)
                 /\ ClaimAlignShape(result.modules, result.version)

\* An output with alignment patterns on the timing lines, whose mask selects
\* cells of the timing row and of an alignment pattern.
C18_Witness ==
  /\ Returned /\ result.version >= 7
  /\ Cardinality(ClaimAlignAt(result.version)) = 6
  /\ \E i \in 8..(result.size - 9) :
       StdMask(ClaimMaskOf(result.modules, result.size), 6, i)
  /\ \E p \in ClaimAlignAt(result.version) :
       StdMask(ClaimMaskOf(result.modules, result.size), p[1], p[2])

\* ------------------------------------------------------------------------
\* buildMatrix and the two information writers on their own, for every
\* version, level and mask.
\* ------------------------------------------------------------------------

\* buildMatrix(v)
BuildOnly(v) ==
  /\ pc = "idle"
  /\ version' = v
  /\ LET bm == buildMatrix(v)
     IN After(bm, m' = bm.m /\ size' = bm.size)
  /\ pc' = "built"
  /\ UNCHANGED <<text, ecLevel, bytes, dataCW, final, bits, mask, bestMask, bestPen,
                 test, pen, result, heap, ref, past>>

\* writeFormatInfo and, from version 7 on, writeVersionInfo on grid g.
WriteInfos(g, sz, ecIdx, v, k) ==
  LET f == writeFormatInfo(g, sz, ecIdx, k)
  IN IF v >= 7 THEN writeVersionInfo(f, sz, v) ELSE f

\* The writers on a copy of the grid buildMatrix made.
WriteOnly(e, k) ==
  /\ pc = "built"
  /\ ecLevel' = e /\ mask' = k
  /\ test' = WriteInfos(m.mod, size, EC_IDX(e), version, k)
  /\ pc' = "written"
  /\ UNCHANGED <<text, bytes, version, dataCW, final, bits, m, size, bestMask, bestPen,
                 pen, result, heap, ref, past>>

NextInfo ==
  \/ \E v \in 1..40 : BuildOnly(v)
  \/ \E e \in ECLevels, k \in 0..7 : WriteOnly(e, k)

SpecInfo == Init /\ [][NextInfo]_vars

\* ------------------------------------------------------------------------
\* C19: every cell writeFormatInfo and writeVersionInfo write is a cell
\* buildMatrix reserved, and none is a finder, separator, timing or alignment
\* cell; every reserved cell that no function pattern sets is written by one
\* of the two.  So the writers change no data cell and no function pattern.
\* ------------------------------------------------------------------------

\* Finder patterns with separators, timing lines between them, alignment
\* patterns.
ClaimPattern(v, r, c) ==
  LET sz == (4 * v) + 17
  IN \/ (r <= 7 /\ c <= 7) \/ (r <= 7 /\ c >= sz - 8) \/ (r >= sz - 8 /\ c <= 7)
     \/ ((r = 6 \/ c = 6) /\ r \in 8..(sz - 9) \cup {6} /\ c \in 8..(sz - 9) \cup {6})
     \/ \E p \in ClaimAlignAt(v) : Abs(r - p[1]) <= 2 /\ Abs(c - p[2]) <= 2

ClaimUniform(sz, b) == [r \in 0..(sz - 1) |-> [c \in 0..(sz - 1) |-> b]]

C19_InfoCells ==
  /\ pc = "built" =>
       \* a cell is written when the writers leave the same value in it on
       \* an all-light and on an all-dark grid
       LET onLight == WriteInfos(ClaimUniform(size, FALSE), size, 0, version, 0)
           onDark == WriteInfos(ClaimUniform(size, TRUE), size, 0, version, 0)
           cells == (0..(size - 1)) \X (0..(size - 1))
           written == {p \in cells : onLight[p[1]][p[2]] = onDark[p[1]][p[2]]}
           pattern == {p \in cells : ClaimPattern(version, p[1], p[2])}
           reserved == {p \in cells : m.res[p[1]][p[2]]}
       IN After(onLight, After(onDark, After(written, After(pattern, After(reserved,
            /\ written \subseteq reserved
            /\ written \cap pattern = {}
            /\ reserved \ pattern \subseteq written
            /\ pattern \subseteq reserved
            /\ Cardinality(written) = IF version >= 7 THEN 67 ELSE 31)))))
  /\ pc = "written" =>
       \A r \in 0..(size - 1), c \in 0..(size - 1) :
         test[r][c] # m.mod[r][c] => (m.res[r][c] /\ ~ClaimPattern(version, r, c))

\* The writers have written into the grid of a version-40 symbol.
C19_Witness == pc = "written" /\ version = 40 /\ test # m.mod /\ mask = 5 /\ ecLevel = "Q"
====
